---- MODULE Spec2Model ----
(***************************************************************************)
(* Translation memoization and markup reinjection pipeline of the EPUB     *)
(* translator (src/translator.py): JsonProcessor.process over the two      *)
(* cache files, Translator.batch_translate_for_json / translate_single     *)
(* against a nondeterministic translation service, TranslationCache with   *)
(* its write-through file, and Update_Xhtml_Manager writing translations   *)
(* back into the document parts (Spec).  AppSpec puts that pipeline under  *)
(* TranslationApp of src/launch.py: the Tk main thread with its buttons    *)
(* and callbacks, and the run_translation threads it starts.  EnumSpec     *)
(* applies the part enumerations, TextExtractor.find_xhtml_files and the   *)
(* two versions of Update_Xhtml_Manager.get_xhtml_files, to extracted      *)
(* books drawn from a bounded set.  BatchSpec calls                        *)
(* batch_translate_for_json on its own with any list of texts and any      *)
(* cache.  FairSpec (process alone) and FairAppSpec (the application) add  *)
(* weak fairness of the steps that need no user, for the liveness          *)
(* properties.                                                             *)
(*                                                                         *)
(* A text is a sequence of characters; a character stands for its class    *)
(* under the regular expressions of TextAnalyzer and of the response       *)
(* parser.  A dict is a sequence of <<key, value>> pairs with distinct     *)
(* keys, in insertion order (Python dict order).                           *)
(***************************************************************************)
EXTENDS Integers, Sequences, FiniteSets, TLC

\* ---------------------------------------------------------------- characters
KANA == "k"      \* a hiragana/katakana character, [ぁ-んァ-ン]
HAN == "z"       \* a character outside every pattern class (e.g. a Han character)
PUNCT == "p"     \* one of the characters 「 」 … ―
GLYPH == "d"     \* the section-break glyph ◇
SPACE == " "     \* a whitespace character other than newline
DIGIT == "1"     \* a decimal digit
DOT == "."
NL == "/"        \* the newline character

IsSpace(c) == c \in {SPACE, NL}

\* ---------------------------------------------------------------- bounds
BatchSize == 2          \* stands for batch_size (20 at the call site)
MaxRuns == 2            \* invocations of Update_Xhtml_Manager.run on the same parts
MaxFaults == 1          \* exceptions raised by the service and the file system in one run
MaxClicks == 2          \* button clicks of the user
MaxListing == 3         \* *.xhtml files in the content directory

\* ---------------------------------------------------------------- str helpers
RECURSIVE LStrip(_)
LStrip(s) == IF s = <<>> THEN <<>>
             ELSE IF IsSpace(Head(s)) THEN LStrip(Tail(s)) ELSE s

RECURSIVE RStrip(_)
RStrip(s) == IF s = <<>> THEN <<>>
             ELSE IF IsSpace(s[Len(s)]) THEN RStrip(SubSeq(s, 1, Len(s) - 1)) ELSE s

\* variant: only the left end is stripped
LStripOnly(s) == LStrip(s)

\* str.strip()
Strip(s) == RStrip(LStrip(s))

RECURSIVE SplitAcc(_, _)
SplitAcc(s, cur) ==
    IF s = <<>> THEN <<cur>>
    ELSE IF Head(s) = NL THEN <<cur>> \o SplitAcc(Tail(s), <<>>)
    ELSE SplitAcc(Tail(s), Append(cur, Head(s)))

\* str.split('\n')
SplitLines(s) == SplitAcc(s, <<>>)

RECURSIVE DigitPrefix(_)
DigitPrefix(s) == IF s # <<>> /\ Head(s) = DIGIT THEN 1 + DigitPrefix(Tail(s)) ELSE 0

\* variant: the numbering is left in place
KeepNumber(line) == line

\* re.match(r'^\d+\.', line) and re.sub(r'^\d+\.\s*', '', line)
StripNumber(line) ==
    LET n == DigitPrefix(line) IN
    IF n >= 1 /\ Len(line) > n /\ line[n + 1] = DOT
    THEN LStrip(SubSeq(line, n + 2, Len(line)))
    ELSE line

\* ---------------------------------------------------------------- dict helpers
Keys(d) == {d[n][1] : n \in 1..Len(d)}
Has(d, k) == \E n \in 1..Len(d) : d[n][1] = k
Index(d, k) == CHOOSE n \in 1..Len(d) : d[n][1] = k
\* dict.get(k): the value, or None
None == <<"None">>
Get(d, k) == IF Has(d, k) THEN d[Index(d, k)][2] ELSE None
\* d[k] = v
Put(d, k, v) == IF Has(d, k) THEN [d EXCEPT ![Index(d, k)] = <<k, v>>]
                ELSE Append(d, <<k, v>>)

\* variant: the result replaces the mapping instead of updating it
MergeReplacing(d, tr) == tr

RECURSIVE Merge(_, _)
\* for text, translation in tr.items(): d[text] = translation
Merge(d, tr) == IF tr = <<>> THEN d
                ELSE Merge(Put(d, Head(tr)[1], Head(tr)[2]), Tail(tr))

\* variant: a fallback that returns no entry at all
NoEntries(texts) == <<>>

\* {text: text for text in texts}
Identity(texts) == [n \in 1..Len(texts) |-> <<texts[n], texts[n]>>]

\* ---------------------------------------------------------------- TextAnalyzer
\* variant: the character class of japanese_pattern (kana and Han alike)
JapaneseChar(c) == c \in {KANA, HAN}

\* the pattern [ぁ-んァ-ン] of japanese_specific_pattern
JapaneseSpecificChar(c) == c = KANA

\* TextAnalyzer.is_japanese_specific
is_japanese_specific(text) == \E n \in 1..Len(text) : JapaneseSpecificChar(text[n])

\* variant: a pattern that accepts whitespace only, ^\s+$
WhitespaceOnly(text) ==
    /\ text # <<>>
    /\ \A n \in 1..Len(text) : IsSpace(text[n])

\* TextAnalyzer.is_punctuation_only: ^[「」…―\s]+$
is_punctuation_only(text) ==
    /\ text # <<>>
    /\ \A n \in 1..Len(text) : text[n] = PUNCT \/ IsSpace(text[n])

\* ---------------------------------------------------------------- response parsing
RECURSIVE NonBlank(_)
\* [line.strip() for line in translation_text.split('\n') if line.strip()]
NonBlank(lines) ==
    IF lines = <<>> THEN <<>>
    ELSE IF Strip(Head(lines)) # <<>> THEN <<Strip(Head(lines))>> \o NonBlank(Tail(lines))
    ELSE NonBlank(Tail(lines))

translated_lines(translation_text) == NonBlank(SplitLines(translation_text))

\* the numbered prefix is removed from every line that has one
cleaned(translation_text) ==
    LET lines == translated_lines(translation_text) IN
    [n \in 1..Len(lines) |-> StripNumber(lines[n])]

\* variant: a guard that only rejects responses with too few lines
AlignedAtLeast(cleaned_translations, uncached_texts) ==
    Len(cleaned_translations) >= Len(uncached_texts)

\* the guard of the fallback: len(cleaned_translations) != len(uncached_texts)
Aligned(cleaned_translations, uncached_texts) ==
    Len(cleaned_translations) = Len(uncached_texts)

\* ---------------------------------------------------------------- scan
\* variant: a test that leaves out the script check
InvalidWithoutScriptCheck(jp_text, ch_text) ==
    \/ ch_text = <<>>
    \/ jp_text = ch_text

\* the test of both branches of find_untranslated
IsInvalidEntry(jp_text, ch_text) ==
    \/ ch_text = <<>>
    \/ is_japanese_specific(ch_text)
    \/ jp_text = ch_text

RECURSIVE FindLoop(_, _, _)
FindLoop(d, n, acc) ==
    IF n > Len(d) THEN [untranslated |-> acc, json_data |-> d]
    ELSE LET jp_text == d[n][1]
             ch_text == d[n][2]
         IN IF jp_text = <<>> THEN FindLoop(d, n + 1, acc)
            ELSE IF IsInvalidEntry(jp_text, ch_text)
                 THEN IF is_punctuation_only(jp_text)
                      THEN FindLoop(Put(d, jp_text, jp_text), n + 1, acc)
                      ELSE FindLoop(d, n + 1, Append(acc, jp_text))
                 ELSE FindLoop(d, n + 1, acc)

\* JsonProcessor.find_untranslated: the returned list and json_data as the
\* call leaves it (the two check_japanese branches are the same code)
find_untranslated(json_data) == FindLoop(json_data, 1, <<>>)

\* ---------------------------------------------------------------- cache check
RECURSIVE CacheLoop(_, _, _, _)
CacheLoop(texts, c, tr, unc) ==
    IF texts = <<>> THEN [translations |-> tr, uncached_texts |-> unc]
    ELSE LET text == Head(texts)
             cached_translation == Get(c, text)
         IN IF cached_translation # None /\ cached_translation # <<>>
            THEN IF is_japanese_specific(cached_translation) \/ text = cached_translation
                 THEN CacheLoop(Tail(texts), c, tr, Append(unc, text))
                 ELSE CacheLoop(Tail(texts), c, Put(tr, text, cached_translation), unc)
            ELSE CacheLoop(Tail(texts), c, tr, Append(unc, text))

\* the first loop of batch_translate_for_json
check_cache(texts, c) == CacheLoop(texts, c, <<>>, <<>>)

\* the test at the head of translate_single
cache_hit(text, c) ==
    LET cached_translation == Get(c, text) IN
    /\ cached_translation # None
    /\ cached_translation # <<>>
    /\ ~(is_japanese_specific(cached_translation) \/ text = cached_translation)

\* ---------------------------------------------------------------- files
Missing == [st |-> "missing", data |-> <<>>]
\* an empty or partly written file: not decodable JSON
Truncated == [st |-> "corrupt", data |-> <<>>]
\* a file whose bytes are not valid UTF-8 (a write cut inside a character)
Undecodable == [st |-> "undecodable", data |-> <<>>]
File(d) == [st |-> "ok", data |-> d]

\* JsonProcessor.load_json and TranslationCache._load_cache: the two except
\* clauses, FileNotFoundError and json.JSONDecodeError
load_json(f) == IF f.st = "ok" THEN f.data ELSE <<>>

\* open(..., 'r', encoding='utf-8') and json.load raise UnicodeDecodeError,
\* which neither except clause names
load_raises(f) == f.st = "undecodable"

\* gpt_translation: cache_files, and the output file of JsonProcessor
cache_files == <<"seed", "out">>
output_file == "out"

\* ---------------------------------------------------------------- inputs
TextA == <<KANA>>
TextB == <<KANA, HAN>>
TextC == <<HAN>>
TextE == <<PUNCT>>
TextG == <<GLYPH>>
Valid1 == <<HAN, HAN>>

\* contents of temp/translation_cache.json when a run starts
SeedFiles ==
    { Missing,
      Truncated,
      Undecodable,
      File(<< <<TextA, <<>>>>, <<TextE, <<>>>>, <<TextB, TextA>> >>),
      File(<< <<TextA, Valid1>>, <<TextE, TextE>> >>),
      File(<< <<TextE, Valid1>>, <<TextA, TextA>>, <<TextG, Valid1>> >>),
      File(<< <<<<>>, <<>>>>, <<TextA, <<>>>>, <<TextB, <<>>>>, <<TextC, <<>>>> >>) }

\* contents of temp/updated_translations.json when a run starts
OutFiles == { Missing, File(<< <<TextB, Valid1>> >>) }

\* message contents the translation service may answer with
Responses ==
    { <<HAN>>,                                                  \* one line
      <<DIGIT, DOT, SPACE, HAN, HAN, NL, NL, DIGIT, DOT, KANA, SPACE>>,
                                                                \* two numbered lines, a blank one between
      <<HAN, NL, HAN, HAN, NL, HAN>> }                          \* three lines

\* a <p> element: the strings of its text nodes in document order, whether
\* it contains a <br/>, and whether its text nodes are wrapped in inline
\* elements (<span>; <span class="koboSpan"> in a Kobo book)
Para(runs, br, tags) == [runs |-> runs, br |-> br, tags |-> tags]

\* the document parts, in the order get_xhtml_files returns them
InitParts ==
    << << Para(<<TextA>>, FALSE, TRUE), Para(<<>>, TRUE, FALSE), Para(<<TextB>>, FALSE, FALSE),
          Para(<< <<SPACE>> >>, FALSE, TRUE) >>,
       << Para(<<TextG>>, FALSE, FALSE), Para(<<TextA>>, TRUE, FALSE) >>,
       << Para(<<TextE>>, FALSE, FALSE), Para(<<TextC, <<SPACE>>>>, FALSE, TRUE),
          Para(<< <<SPACE>>, TextC >>, FALSE, FALSE) >> >>

\* ---------------------------------------------------------------- part enumeration
\* A file name is a sequence of characters; the digits are themselves.
Digits == <<"0", "1", "2", "3", "4", "5", "6", "7", "8", "9">>
IsDigit(c) == \E n \in 1..10 : Digits[n] = c
DigitVal(c) == (CHOOSE n \in 1..10 : Digits[n] = c) - 1

\* float('inf'): larger than every file number
Inf == 1000000

RECURSIVE ToInt(_, _)
\* int() of the leading run of digits of s, acc the value so far
ToInt(s, acc) == IF s # <<>> /\ IsDigit(Head(s))
                 THEN ToInt(Tail(s), 10 * acc + DigitVal(Head(s)))
                 ELSE acc

RECURSIVE get_file_number(_)
\* get_file_number: re.search(r'(\d+)', name), int of the match, else inf
get_file_number(name) ==
    IF name = <<>> THEN Inf
    ELSE IF IsDigit(Head(name)) THEN ToInt(name, 0)
    ELSE get_file_number(Tail(name))

RECURSIVE InsertByNumber(_, _)
\* f goes behind every element whose number is not larger than its own
InsertByNumber(sorted, f) ==
    IF sorted = <<>> THEN <<f>>
    ELSE IF get_file_number(Head(sorted)) <= get_file_number(f)
         THEN <<Head(sorted)>> \o InsertByNumber(Tail(sorted), f)
         ELSE <<f>> \o sorted

RECURSIVE SortAcc(_, _)
SortAcc(fs, acc) == IF fs = <<>> THEN acc
                    ELSE SortAcc(Tail(fs), InsertByNumber(acc, Head(fs)))

\* sorted(files, key=get_file_number): stable, equal keys keep their order
sorted_by_number(fs) == SortAcc(fs, <<>>)

\* the extracted EPUB: META-INF/container.xml, the package file with its
\* manifest items and spine itemrefs, and the *.xhtml files of the content
\* directory in the order glob lists them (no directory: has_dir is FALSE)
Book(container, opf, manifest, spine, has_dir, listing) ==
    [container |-> container, opf |-> opf, manifest |-> manifest, spine |-> spine,
     has_dir |-> has_dir, listing |-> listing]

\* a manifest item: id, href and whether media-type is application/xhtml+xml
Item(id, href, xhtml) == [id |-> id, href |-> href, xhtml |-> xhtml]

NoBook == Book("missing", "missing", <<>>, <<>>, FALSE, <<>>)

\* the outcome of an enumeration: (None, None), an exception, or the files
NotRun == [out |-> "not run", files |-> <<>>]
NoneNone == [out |-> "none", files |-> <<>>]
Raised == [out |-> "raised", files |-> <<>>]
Files(fs) == [out |-> "files", files |-> fs]

\* full_path.exists() for a manifest href
Exists(b, href) == b.has_dir /\ \E n \in 1..Len(b.listing) : b.listing[n] = href

\* the manifest dict: id -> href of the XHTML items, a later item with the
\* same id replaces an earlier one
InManifest(b, id) == \E n \in 1..Len(b.manifest) : b.manifest[n].id = id /\ b.manifest[n].xhtml
ManifestHref(b, id) ==
    LET last == CHOOSE n \in 1..Len(b.manifest) :
                    /\ b.manifest[n].id = id /\ b.manifest[n].xhtml
                    /\ \A m \in (n + 1)..Len(b.manifest) :
                         ~(b.manifest[m].id = id /\ b.manifest[m].xhtml)
    IN b.manifest[last].href

\* variant: the idrefs of the manifest, whether their file exists or not
SpineLoopUnchecked(b, spine) ==
    LET Listed(id) == InManifest(b, id)
        ids == SelectSeq(spine, Listed)
    IN [n \in 1..Len(ids) |-> ManifestHref(b, ids[n])]

RECURSIVE SpineLoop(_, _)
\* the loop over the spine: an idref of the manifest whose file exists
\* appends its path
SpineLoop(b, spine) ==
    IF spine = <<>> THEN <<>>
    ELSE IF InManifest(b, Head(spine)) /\ Exists(b, ManifestHref(b, Head(spine)))
         THEN <<ManifestHref(b, Head(spine))>> \o SpineLoop(b, Tail(spine))
         ELSE SpineLoop(b, Tail(spine))

\* TextExtractor.find_xhtml_files (src/tools/text_extractor.py)
find_xhtml_files(b) ==
    IF b.container # "ok" THEN NoneNone
    ELSE IF b.opf # "ok" THEN NoneNone
    ELSE LET xhtml_files == SpineLoop(b, b.spine) IN
         IF xhtml_files # <<>> THEN Files(xhtml_files)
         ELSE IF b.has_dir THEN Files(sorted_by_number(b.listing))
         ELSE NoneNone

\* the test `not xhtml_folder or not xhtml_files` on the returned pair
Unusable(res) == res.out = "none" \/ res.files = <<>>

\* extract_text (src/tools/text_extractor.py): the files it reads
extract_enumeration(b) ==
    LET res == find_xhtml_files(b) IN
    IF Unusable(res) THEN NoneNone ELSE res

\* Update_Xhtml_Manager.get_xhtml_files (src/translator.py): after the
\* fallback branch the comprehension still iterates the returned xhtml_files,
\* which is None (TypeError) or empty
get_xhtml_files(b) ==
    LET res == find_xhtml_files(b) IN
    IF Unusable(res)
    THEN IF b.has_dir
         THEN IF res.out = "none" THEN Raised ELSE Files(<<>>)
         ELSE NoneNone
    ELSE res

\* Update_Xhtml_Manager.get_xhtml_files (src/tools/translator.py)
get_xhtml_files_tools(b) ==
    LET res == find_xhtml_files(b) IN
    IF Unusable(res) THEN NoneNone ELSE res

\* ---------------------------------------------------------------- state
VARIABLES
    files,                  \* the two JSON files under temp/
    parts,                  \* the XHTML files of the extracted book
    pc,                     \* position of the pipeline thread
    fi,                     \* index of cache_file in cache_files
    json_data,              \* process: json_data
    untranslated,           \* process: untranslated
    updated_json,           \* process: updated_json
    cache,                  \* TranslationCache.cache
    i,                      \* process: offset of the current batch
    translations,           \* batch_translate_for_json: translations
    uncached_texts,         \* batch_translate_for_json: uncached_texts
    cleaned_translations,   \* batch_translate_for_json: cleaned_translations
    j,                      \* batch_translate_for_json: position of the zip loop
    remaining_untranslated, \* process: remaining_untranslated
    r,                      \* process: position in remaining_untranslated
    translation,            \* translate_single: translation
    wr,                     \* "open" while a file is open for writing, "unlinked"
                            \* when that file was deleted in the meantime
    xtranslations,          \* Update_Xhtml_Manager.translations
    xi,                     \* update_xhtml_files: position in xhtml_files
    updated_count,          \* update_xhtml_files: updated_count
    runs,                   \* number of calls of Update_Xhtml_Manager.run
    ev,                     \* history: the last event
    requested,              \* history: texts sent to the service in this pass
    calls,                  \* history: numbers of requests sent, see NoCalls
    scanned,                \* history: the mapping the pass loaded
    setDone,                \* history: completed cache.set calls of this pass
    crashedAt,              \* history: position at which the process died
    faults,                 \* history: number of exceptions raised so far
    initial,                \* history: the two JSON files as the run found them
    is_translating,         \* TranslationApp.is_translating
    button,                 \* state of TranslationApp.translate_button
    stage,                  \* position of every run_translation thread started so far
    after_queue,            \* callbacks scheduled with root.after(0, ...), oldest first
    clicks,                 \* history: number of user actions so far
    extracted_text,         \* temp/extracted_text.txt
    book,                   \* the extracted EPUB: metadata files and directory
    extractor_files,        \* extract_text: outcome of find_xhtml_files
    manager_files,          \* get_xhtml_files of src/translator.py: outcome
    manager_files_tools     \* get_xhtml_files of src/tools/translator.py: outcome

vars == <<files, parts, pc, fi, json_data, untranslated, updated_json, cache, i,
          translations, uncached_texts, cleaned_translations, j,
          remaining_untranslated, r, translation, wr, xtranslations, xi,
          updated_count, runs, ev, requested, calls, scanned, setDone, crashedAt, faults,
          initial, is_translating, button, stage, after_queue, clicks, extracted_text,
          book, extractor_files, manager_files, manager_files_tools>>

procLocals == <<json_data, untranslated, updated_json, cache, i,
                remaining_untranslated, r>>
batchLocals == <<translations, uncached_texts, cleaned_translations, j>>
xhtmlVars == <<parts, xtranslations, xi, updated_count, runs>>
appVars == <<is_translating, button, stage, after_queue, clicks, extracted_text>>
enumVars == <<book, extractor_files, manager_files, manager_files_tools>>

\* no request was sent yet: the numbers of batch and of single requests of
\* the pass, and per text the number of requests that held it, in the pass
\* and in the run
NoCalls == [batch |-> 0, single |-> 0, pass |-> <<>>, run |-> <<>>]

\* d with the count of k raised by one
Bump(d, k) == Put(d, k, IF Has(d, k) THEN Get(d, k) + 1 ELSE 1)

RECURSIVE BumpAll(_, _)
BumpAll(d, ks) == IF ks = <<>> THEN d ELSE BumpAll(Bump(d, Head(ks)), Tail(ks))

Event(kind, req, resp) == [kind |-> kind, req |-> req, resp |-> resp]
NoEvent == Event("none", <<>>, <<>>)

cache_file == cache_files[fi]

\* the locals of process are dead once the iteration has saved its result
ResetProc ==
    /\ json_data' = <<>>
    /\ untranslated' = <<>>
    /\ updated_json' = <<>>
    /\ cache' = <<>>
    /\ i' = 0
    /\ remaining_untranslated' = <<>>
    /\ r' = 0

ResetHistory ==
    /\ initial' = [seed |-> Missing, out |-> Missing]
    /\ requested' = {}
    /\ calls' = NoCalls
    /\ scanned' = <<>>
    /\ setDone' = <<>>

\* an exception is raised: at most MaxFaults of them in a run
Fault ==
    /\ faults < MaxFaults
    /\ faults' = faults + 1

\* gpt_translation has entered JsonProcessor.process; nothing else has run
ProcessEntered ==
    /\ parts = InitParts
    /\ pc = "scan"
    /\ fi = 1
    /\ json_data = <<>>
    /\ untranslated = <<>>
    /\ updated_json = <<>>
    /\ cache = <<>>
    /\ i = 0
    /\ translations = <<>>
    /\ uncached_texts = <<>>
    /\ cleaned_translations = <<>>
    /\ j = 0
    /\ remaining_untranslated = <<>>
    /\ r = 0
    /\ translation = <<>>
    /\ wr = "idle"
    /\ xtranslations = <<>>
    /\ xi = 0
    /\ updated_count = 0
    /\ runs = 0
    /\ ev = NoEvent
    /\ requested = {}
    /\ calls = NoCalls
    /\ scanned = <<>>
    /\ setDone = <<>>
    /\ crashedAt = "none"
    /\ faults = 0
    /\ is_translating = FALSE
    /\ button = "normal"
    /\ stage = <<>>
    /\ after_queue = <<>>
    /\ clicks = 0
    /\ extracted_text = <<>>
    /\ book = NoBook
    /\ extractor_files = NotRun
    /\ manager_files = NotRun
    /\ manager_files_tools = NotRun

Init ==
    /\ files \in [seed : SeedFiles, out : OutFiles]
    /\ initial = files
    /\ ProcessEntered

\* ---------------------------------------------------------------- process
Min(a, b) == IF a < b THEN a ELSE b
Range(seq) == {seq[n] : n \in 1..Len(seq)}

\* calls after one more request of the kind, holding the texts ts
Sent(kind, ts) ==
    [batch |-> calls.batch + (IF kind = "batch" THEN 1 ELSE 0),
     single |-> calls.single + (IF kind = "single" THEN 1 ELSE 0),
     pass |-> BumpAll(calls.pass, ts),
     run |-> BumpAll(calls.run, ts)]

\* batch = untranslated[i:i + batch_size]
texts == SubSeq(untranslated, i + 1, Min(i + BatchSize, Len(untranslated)))

\* process: load_json, find_untranslated, and the branch on the result
ProcessScan ==
    /\ pc = "scan"
    /\ ~load_raises(files[cache_file])
    /\ LET loaded == load_json(files[cache_file])
           res == find_untranslated(loaded)
       IN /\ json_data' = res.json_data
          /\ untranslated' = res.untranslated
          /\ scanned' = loaded
          /\ IF res.untranslated = <<>>
             THEN /\ pc' = "save"
                  /\ UNCHANGED <<updated_json, cache>>
             ELSE /\ pc' = "batch"
                  /\ updated_json' = res.json_data
                  /\ cache' = load_json(files[cache_file])
    /\ i' = 0
    /\ requested' = {}
    /\ calls' = [NoCalls EXCEPT !.run = calls.run]
    /\ setDone' = <<>>
    /\ ev' = Event("scan", <<>>, <<>>)
    /\ UNCHANGED <<files, fi, remaining_untranslated, r, translation, wr,
                   batchLocals, xhtmlVars, crashedAt, initial, appVars, enumVars, faults>>

\* process: load_json raises; nothing in process, process_all or
\* gpt_translation catches it
ProcessLoadRaise ==
    /\ pc = "scan"
    /\ load_raises(files[cache_file])
    /\ pc' = "aborted"
    /\ ev' = Event("load_raised", <<>>, <<>>)
    /\ UNCHANGED <<files, fi, procLocals, batchLocals, translation, wr, xhtmlVars,
                   requested, calls, scanned, setDone, crashedAt, faults, initial, appVars, enumVars>>

\* variant: the same batch is taken again
ReturnBatchAgain(result) ==
    /\ updated_json' = Merge(updated_json, result)
    /\ i' = i
    /\ pc' = "batch"
    /\ translations' = <<>>
    /\ uncached_texts' = <<>>
    /\ cleaned_translations' = <<>>
    /\ j' = 0

\* batch_translate_for_json returns result: process merges it into
\* updated_json and moves to the next batch
ReturnBatch(result) ==
    /\ updated_json' = Merge(updated_json, result)
    /\ i' = i + BatchSize
    /\ pc' = IF i + BatchSize < Len(untranslated) THEN "batch" ELSE "rescan"
    /\ translations' = <<>>
    /\ uncached_texts' = <<>>
    /\ cleaned_translations' = <<>>
    /\ j' = 0

\* batch_translate_for_json up to the parsed response
BatchTranslate ==
    /\ pc = "batch"
    /\ LET cc == check_cache(texts, cache)
           unc == cc.uncached_texts
       IN IF unc = <<>>
          THEN /\ ReturnBatch(cc.translations)
               /\ ev' = Event("batch_cached", <<>>, <<>>)
               /\ UNCHANGED <<requested, calls, faults>>
          ELSE /\ requested' = requested \cup Range(unc)
               /\ calls' = Sent("batch", unc)
               /\ \/ /\ Fault
                     /\ ReturnBatch(Identity(texts))
                     /\ ev' = Event("batch_raised", unc, <<>>)
                  \/ \E resp \in Responses :
                       LET cl == cleaned(resp) IN
                       /\ UNCHANGED faults
                       /\ IF ~Aligned(cl, unc)
                          THEN /\ ReturnBatch(Merge(cc.translations, Identity(unc)))
                               /\ ev' = Event("batch_misaligned", unc, resp)
                          ELSE /\ pc' = "bset"
                               /\ translations' = cc.translations
                               /\ uncached_texts' = unc
                               /\ cleaned_translations' = cl
                               /\ j' = 1
                               /\ ev' = Event("batch_aligned", unc, resp)
                               /\ UNCHANGED <<updated_json, i>>
    /\ UNCHANGED <<files, fi, json_data, untranslated, cache, remaining_untranslated,
                   r, translation, wr, xhtmlVars, scanned, setDone, crashedAt, initial, appVars, enumVars>>

\* zip loop: translations[original] = translated; cache.set: the cache entry
\* is assigned and save_cache opens the file for writing
CacheSetOpen ==
    /\ pc = "bset" /\ wr = "idle"
    /\ LET original == uncached_texts[j]
           translated == cleaned_translations[j]
       IN /\ translations' = Put(translations, original, translated)
          /\ cache' = Put(cache, original, translated)
          /\ ev' = Event("set_open", <<original>>, translated)
    /\ files' = [files EXCEPT ![cache_file] = Truncated]
    /\ wr' = "open"
    /\ UNCHANGED <<pc, fi, json_data, untranslated, updated_json, i, uncached_texts,
                   cleaned_translations, j, remaining_untranslated, r, translation,
                   xhtmlVars, requested, calls, scanned, setDone, crashedAt, initial, appVars, enumVars, faults>>

\* save_cache: json.dump completes and the file is closed; after the last
\* pair the batch returns its translations
CacheSetDump ==
    /\ pc = "bset" /\ wr \in {"open", "unlinked"}
    /\ files' = IF wr = "open" THEN [files EXCEPT ![cache_file] = File(cache)] ELSE files
    /\ wr' = "idle"
    /\ setDone' = Put(setDone, uncached_texts[j], cleaned_translations[j])
    /\ ev' = Event("set_done", <<uncached_texts[j]>>, cleaned_translations[j])
    /\ IF j = Len(uncached_texts)
       THEN ReturnBatch(translations)
       ELSE /\ j' = j + 1
            /\ UNCHANGED <<pc, updated_json, i, translations, uncached_texts,
                           cleaned_translations>>
    /\ UNCHANGED <<fi, json_data, untranslated, cache, remaining_untranslated, r,
                   translation, xhtmlVars, requested, calls, scanned, crashedAt, initial, appVars, enumVars, faults>>

\* cache.set raises (makedirs/open before the file is touched, or the dump
\* after it was truncated): the except clause of batch_translate_for_json
\* returns {text: text for text in texts}
CacheSetRaise ==
    /\ pc = "bset"
    /\ Fault
    /\ cache' = IF wr = "idle"
                THEN Put(cache, uncached_texts[j], cleaned_translations[j])
                ELSE cache
    /\ wr' = "idle"
    /\ ReturnBatch(Identity(texts))
    /\ ev' = Event("set_raised", uncached_texts, <<>>)
    /\ UNCHANGED <<files, fi, json_data, untranslated, remaining_untranslated, r,
                   translation, xhtmlVars, requested, calls, scanned, setDone, crashedAt, initial, appVars, enumVars>>

\* process, step 2: find_untranslated(updated_json, check_japanese=True)
Rescan ==
    /\ pc = "rescan"
    /\ LET res == find_untranslated(updated_json)
       IN /\ updated_json' = res.json_data
          /\ remaining_untranslated' = res.untranslated
          /\ pc' = IF res.untranslated = <<>> THEN "save" ELSE "single"
          /\ r' = IF res.untranslated = <<>> THEN 0 ELSE 1
    /\ ev' = Event("rescan", <<>>, <<>>)
    /\ UNCHANGED <<files, fi, json_data, untranslated, cache, i, batchLocals,
                   translation, wr, xhtmlVars, requested, calls, scanned, setDone, crashedAt, initial, appVars, enumVars,
                   faults>>

\* variant: the result of translate_single is dropped
ReturnSingleNoStore(result) ==
    /\ updated_json' = updated_json
    /\ r' = r + 1
    /\ pc' = IF r < Len(remaining_untranslated) THEN "single" ELSE "save"
    /\ translation' = <<>>

\* translate_single returns result: updated_json[text] = translation, next unit
ReturnSingle(result) ==
    /\ updated_json' = Put(updated_json, remaining_untranslated[r], result)
    /\ r' = r + 1
    /\ pc' = IF r < Len(remaining_untranslated) THEN "single" ELSE "save"
    /\ translation' = <<>>

\* translate_single up to the response
TranslateSingle ==
    /\ pc = "single"
    /\ LET text == remaining_untranslated[r]
       IN IF cache_hit(text, cache)
          THEN /\ ReturnSingle(Get(cache, text))
               /\ ev' = Event("single_cached", <<text>>, <<>>)
               /\ UNCHANGED <<requested, calls, faults>>
          ELSE /\ requested' = requested \cup {text}
               /\ calls' = Sent("single", <<text>>)
               /\ \/ /\ Fault
                     /\ ReturnSingle(text)
                     /\ ev' = Event("single_raised", <<text>>, <<>>)
                  \/ \E resp \in Responses :
                       /\ translation' = Strip(resp)
                       /\ pc' = "sset"
                       /\ ev' = Event("single_answered", <<text>>, resp)
                       /\ UNCHANGED <<updated_json, r, faults>>
    /\ UNCHANGED <<files, fi, json_data, untranslated, cache, i, batchLocals,
                   remaining_untranslated, wr, xhtmlVars, scanned, setDone, crashedAt, initial, appVars, enumVars>>

\* translate_single: cache.set(text, translation) assigns and opens the file
SingleSetOpen ==
    /\ pc = "sset" /\ wr = "idle"
    /\ cache' = Put(cache, remaining_untranslated[r], translation)
    /\ files' = [files EXCEPT ![cache_file] = Truncated]
    /\ wr' = "open"
    /\ ev' = Event("set_open", <<remaining_untranslated[r]>>, translation)
    /\ UNCHANGED <<pc, fi, json_data, untranslated, updated_json, i, batchLocals,
                   remaining_untranslated, r, translation, xhtmlVars, requested, calls,
                   scanned, setDone, crashedAt, initial, appVars, enumVars, faults>>

\* translate_single: the dump completes and the translation is returned
SingleSetDump ==
    /\ pc = "sset" /\ wr \in {"open", "unlinked"}
    /\ files' = IF wr = "open" THEN [files EXCEPT ![cache_file] = File(cache)] ELSE files
    /\ wr' = "idle"
    /\ setDone' = Put(setDone, remaining_untranslated[r], translation)
    /\ ev' = Event("set_done", <<remaining_untranslated[r]>>, translation)
    /\ ReturnSingle(translation)
    /\ UNCHANGED <<fi, json_data, untranslated, cache, i, batchLocals,
                   remaining_untranslated, xhtmlVars, requested, calls, scanned, crashedAt, initial, appVars, enumVars,
                   faults>>

\* translate_single: cache.set raises and the except clause returns text
SingleSetRaise ==
    /\ pc = "sset"
    /\ Fault
    /\ cache' = IF wr = "idle"
                THEN Put(cache, remaining_untranslated[r], translation)
                ELSE cache
    /\ wr' = "idle"
    /\ ReturnSingle(remaining_untranslated[r])
    /\ ev' = Event("set_raised", <<remaining_untranslated[r]>>, <<>>)
    /\ UNCHANGED <<files, fi, json_data, untranslated, i, batchLocals,
                   remaining_untranslated, xhtmlVars, requested, calls, scanned, setDone,
                   crashedAt, initial, appVars, enumVars>>

\* what process hands to save_json: json_data on the early path, else updated_json
to_save == IF untranslated = <<>> THEN json_data ELSE updated_json

\* save_json: the output file is opened for writing
SaveOpen ==
    /\ pc = "save" /\ wr = "idle"
    /\ files' = [files EXCEPT ![output_file] = Truncated]
    /\ wr' = "open"
    /\ ev' = Event("save_open", <<>>, <<>>)
    /\ UNCHANGED <<pc, fi, procLocals, batchLocals, translation, xhtmlVars,
                   requested, calls, scanned, setDone, crashedAt, initial, appVars, enumVars, faults>>

\* save_json: the dump completes; process goes on to the next cache file,
\* and gpt_translation to Update_Xhtml_Manager.run after the last one
SaveDump ==
    /\ pc = "save" /\ wr \in {"open", "unlinked"}
    /\ files' = IF wr = "open" THEN [files EXCEPT ![output_file] = File(to_save)] ELSE files
    /\ wr' = "idle"
    /\ ev' = Event("saved", <<>>, <<>>)
    /\ IF fi < Len(cache_files)
       THEN /\ fi' = fi + 1
            /\ pc' = "scan"
       ELSE /\ pc' = "load_translations"
            /\ UNCHANGED fi
    /\ ResetProc
    /\ UNCHANGED <<batchLocals, translation, xhtmlVars, requested, calls, scanned, setDone,
                   crashedAt, initial, appVars, enumVars, faults>>

\* save_json raises: nothing in process, process_all or gpt_translation
\* catches it, the pipeline ends with the exception
SaveRaise ==
    /\ pc = "save"
    /\ Fault
    /\ pc' = "aborted"
    /\ wr' = "idle"
    /\ ev' = Event("save_raised", <<>>, <<>>)
    /\ ResetProc
    /\ UNCHANGED <<files, fi, batchLocals, translation, xhtmlVars, requested, calls,
                   scanned, setDone, crashedAt, initial, appVars, enumVars>>

\* the process dies (killed, power loss): memory is lost, files stay as they are
Crash ==
    /\ pc \notin {"done", "aborted", "crashed"}
    /\ pc' = "crashed"
    /\ crashedAt' = pc
    /\ ev' = Event("crash", <<>>, <<>>)
    /\ ResetProc
    /\ translations' = <<>>
    /\ uncached_texts' = <<>>
    /\ cleaned_translations' = <<>>
    /\ j' = 0
    /\ translation' = <<>>
    /\ wr' = "idle"
    /\ xtranslations' = <<>>
    /\ xi' = 0
    /\ updated_count' = 0
    /\ requested' = {}
    /\ calls' = NoCalls
    /\ scanned' = <<>>
    /\ UNCHANGED <<files, parts, fi, runs, setDone, faults, initial, appVars, enumVars>>

\* ---------------------------------------------------------------- reinjection
RECURSIVE JoinStripped(_)
JoinStripped(strs) == IF strs = <<>> THEN <<>>
                      ELSE Strip(Head(strs)) \o JoinStripped(Tail(strs))

\* p.get_text(strip=True)
get_text(p) == JoinStripped(p.runs)

\* variant: only the <br/> test
SkippedOnBreakOnly(p) == p.br

\* the skip test: p.find("br") or p.get_text(strip=True) == "◇"
Skipped(p) == p.br \/ get_text(p) = <<GLYPH>>

\* variant: the value is put in front of the element's former content
ReplacedKeepingMarkup(value) == Para(<<value>>, FALSE, TRUE)

\* p.clear(); p.append(value): one text node, none when the value is empty
Replaced(value) == Para(IF value = <<>> THEN <<>> ELSE <<value>>, FALSE, FALSE)

\* the lookup test: paragraph_text in self.translations
Replaces(p, tr) == Has(tr, get_text(p))

RECURSIVE UpdateLoop(_, _, _, _)
UpdateLoop(paragraphs, n, tr, changes_made) ==
    IF n > Len(paragraphs)
    THEN [paragraphs |-> paragraphs, changes_made |-> changes_made]
    ELSE LET p == paragraphs[n] IN
         IF Skipped(p) THEN UpdateLoop(paragraphs, n + 1, tr, changes_made)
         ELSE IF Replaces(p, tr)
              THEN UpdateLoop([paragraphs EXCEPT ![n] = Replaced(Get(tr, get_text(p)))],
                              n + 1, tr, TRUE)
              ELSE UpdateLoop(paragraphs, n + 1, tr, changes_made)

\* the loop of _update_single_file over the <p> elements of one part
update_paragraphs(paragraphs, tr) == UpdateLoop(paragraphs, 1, tr, FALSE)

\* Update_Xhtml_Manager.run: load_translations, get_xhtml_files and the
\* start of update_xhtml_files
LoadTranslations ==
    /\ pc = "load_translations"
    /\ runs' = runs + 1
    /\ IF files[output_file].st = "ok"
       THEN /\ xtranslations' = files[output_file].data
            /\ pc' = "update"
            /\ xi' = 1
            /\ ev' = Event("loaded", <<>>, <<>>)
       ELSE /\ pc' = "done"
            /\ xi' = 0
            /\ ev' = Event("load_failed", <<>>, <<>>)
            /\ UNCHANGED xtranslations
    /\ updated_count' = 0
    /\ ResetHistory
    /\ UNCHANGED <<files, parts, fi, procLocals, batchLocals, translation, wr,
                   crashedAt, appVars, enumVars, faults>>

\* variant: update_xhtml_files returns at the first part that raised
NextFileStoppingOnError ==
    /\ xi' = xi + 1
    /\ pc' = IF xi < Len(parts) /\ ev'.kind \in {"part_written", "part_unchanged"}
             THEN "update" ELSE "done"

\* update_xhtml_files moves to the next part, and returns after the last
NextFile ==
    /\ xi' = xi + 1
    /\ pc' = IF xi < Len(parts) THEN "update" ELSE "done"

\* _update_single_file on part xi, no exception
UpdateSingleFile ==
    /\ pc = "update"
    /\ LET res == update_paragraphs(parts[xi], xtranslations)
       IN IF res.changes_made
          THEN /\ parts' = [parts EXCEPT ![xi] = res.paragraphs]
               /\ updated_count' = updated_count + 1
               /\ ev' = Event("part_written", <<>>, <<>>)
          ELSE /\ ev' = Event("part_unchanged", <<>>, <<>>)
               /\ UNCHANGED <<parts, updated_count>>
    /\ NextFile
    /\ UNCHANGED <<files, fi, procLocals, batchLocals, translation, wr,
                   xtranslations, runs, requested, calls, scanned, setDone, crashedAt, initial, appVars, enumVars, faults>>

\* _update_single_file on part xi raises (reading or parsing; or writing,
\* which leaves the part truncated): the except clause returns False
UpdateSingleFileRaise ==
    /\ pc = "update"
    /\ Fault
    /\ \/ /\ ev' = Event("part_read_raised", <<>>, <<>>)
          /\ UNCHANGED parts
       \/ /\ update_paragraphs(parts[xi], xtranslations).changes_made
          /\ ev' = Event("part_write_raised", <<>>, <<>>)
          /\ parts' = [parts EXCEPT ![xi] = <<>>]
    /\ NextFile
    /\ UNCHANGED <<files, fi, procLocals, batchLocals, translation, wr,
                   xtranslations, updated_count, runs, requested, calls, scanned, setDone,
                   crashedAt, initial, appVars, enumVars>>

\* Update_Xhtml_Manager.run is called again on the parts the last call left
RunAgain ==
    /\ pc = "done"
    /\ runs \in 1..(MaxRuns - 1)
    /\ pc' = "load_translations"
    /\ ev' = Event("run_again", <<>>, <<>>)
    /\ UNCHANGED <<files, parts, fi, procLocals, batchLocals, translation, wr,
                   xtranslations, xi, updated_count, runs, requested, calls, scanned,
                   setDone, crashedAt, initial, appVars, enumVars, faults>>

Next ==
    \/ ProcessScan
    \/ ProcessLoadRaise
    \/ BatchTranslate
    \/ CacheSetOpen
    \/ CacheSetDump
    \/ CacheSetRaise
    \/ Rescan
    \/ TranslateSingle
    \/ SingleSetOpen
    \/ SingleSetDump
    \/ SingleSetRaise
    \/ SaveOpen
    \/ SaveDump
    \/ SaveRaise
    \/ LoadTranslations
    \/ UpdateSingleFile
    \/ UpdateSingleFileRaise
    \/ RunAgain
    \/ Crash

Spec == Init /\ [][Next]_vars

\* cache files for the runs of JsonProcessor.process on its own: one that
\* cannot be decoded, and one with two untranslated units and a punctuation
\* unit
FairSeedFiles ==
    { Undecodable,
      File(<< <<TextA, <<>>>>, <<TextE, <<>>>>, <<TextB, TextA>> >>) }

\* process is entered with no output file yet
FairInit ==
    /\ files \in [seed : FairSeedFiles, out : {Missing}]
    /\ initial = files
    /\ ProcessEntered

\* the steps of JsonProcessor.process while the process lives
Step ==
    \/ ProcessScan
    \/ ProcessLoadRaise
    \/ BatchTranslate
    \/ CacheSetOpen
    \/ CacheSetDump
    \/ CacheSetRaise
    \/ Rescan
    \/ TranslateSingle
    \/ SingleSetOpen
    \/ SingleSetDump
    \/ SingleSetRaise
    \/ SaveOpen
    \/ SaveDump
    \/ SaveRaise

\* process is sequential code on one thread: while the process is not
\* killed and every call of the service and of the file system returns or
\* raises, the statement the thread is at is executed
FairSpec == FairInit /\ [][Step]_vars /\ WF_vars(Step)

\* ---------------------------------------------------------------- application
\* TranslationApp (src/launch.py): the Tk main thread runs the button
\* commands and the callbacks scheduled with root.after; every accepted
\* Translate click starts a run_translation thread, which runs the stages
\* of the pipeline and gpt_translation among them.

\* the lines of temp/extracted_text.txt for one part (kindle branch): the
\* text of every <p>, then the blank line that ends the part
part_lines(paragraphs) ==
    [n \in 1..Len(paragraphs) |-> get_text(paragraphs[n])] \o << <<>> >>

RECURSIVE kobo_lines(_)
\* the lines written for the <p> elements of one part (kobo branch): the
\* joined koboSpan texts when there are spans and the text is not empty,
\* nothing when it is empty, a blank line when there is no span
kobo_lines(paragraphs) ==
    IF paragraphs = <<>> THEN <<>>
    ELSE LET p == Head(paragraphs) IN
         (IF p.tags
          THEN (IF get_text(p) # <<>> THEN <<get_text(p)>> ELSE <<>>)
          ELSE << <<>> >>) \o kobo_lines(Tail(paragraphs))

\* the platforms of the combobox
Platforms == {"kindle", "kobo"}

RECURSIVE extract_lines(_, _)
\* TextExtractor.extract_text over the parts in order
extract_lines(ps, platform) ==
    IF ps = <<>> THEN <<>>
    ELSE (IF platform = "kobo" THEN kobo_lines(Head(ps)) \o << <<>> >>
                              ELSE part_lines(Head(ps)))
         \o extract_lines(Tail(ps), platform)

\* contents of temp/translation_cache.json when the application starts
AppSeedFiles == { Missing, Undecodable, File(<< <<TextA, <<>>>> >>) }

Running(t) == stage[t] # "exited"
Threads == {t \in 1..Len(stage) : Running(t)}

\* the pipeline variables outside the files: untouched by the UI thread and
\* by the stages around gpt_translation
pipeVars == <<fi, procLocals, batchLocals, translation, xtranslations, xi,
              updated_count, runs, requested, calls, scanned, setDone, crashedAt>>

\* no pipeline is running: the variables of gpt_translation at rest
PipelineIdle ==
    /\ pc = "idle"
    /\ fi = 1
    /\ json_data = <<>>
    /\ untranslated = <<>>
    /\ updated_json = <<>>
    /\ cache = <<>>
    /\ i = 0
    /\ translations = <<>>
    /\ uncached_texts = <<>>
    /\ cleaned_translations = <<>>
    /\ j = 0
    /\ remaining_untranslated = <<>>
    /\ r = 0
    /\ translation = <<>>
    /\ wr = "idle"
    /\ xtranslations = <<>>
    /\ xi = 0
    /\ updated_count = 0
    /\ runs = 0
    /\ ev = NoEvent
    /\ requested = {}
    /\ calls = NoCalls
    /\ scanned = <<>>
    /\ setDone = <<>>
    /\ crashedAt = "none"
    /\ faults = 0

\* the application has been started and no button was clicked yet
AppIdle ==
    /\ is_translating = FALSE
    /\ button = "normal"
    /\ stage = <<>>
    /\ after_queue = <<>>
    /\ clicks = 0
    /\ extracted_text = <<>>

AppInit ==
    /\ files \in [seed : AppSeedFiles, out : {Missing}]
    /\ parts = InitParts
    /\ initial = files
    /\ PipelineIdle
    /\ AppIdle
    /\ book = NoBook
    /\ extractor_files = NotRun
    /\ manager_files = NotRun
    /\ manager_files_tools = NotRun

\* variant: translate without the is_translating test and without
\* disabling the button
ClickTranslateUnguarded ==
    /\ clicks < MaxClicks
    /\ clicks' = clicks + 1
    /\ is_translating' = TRUE
    /\ stage' = Append(stage, "start")
    /\ initial' = files
    /\ ev' = Event("click_started", <<>>, <<>>)
    /\ UNCHANGED <<files, parts, pc, wr, pipeVars, enumVars, faults, button, after_queue,
                   extracted_text>>

\* TranslationApp.translate, the command of the Translate button (a
\* disabled button does not run its command)
ClickTranslate ==
    /\ button = "normal"
    /\ clicks < MaxClicks
    /\ clicks' = clicks + 1
    /\ IF is_translating
       THEN /\ ev' = Event("click_rejected", <<>>, <<>>)
            /\ UNCHANGED <<is_translating, button, stage, initial>>
       ELSE /\ is_translating' = TRUE
            /\ button' = "disabled"
            /\ stage' = Append(stage, "start")
            /\ initial' = files
            /\ ev' = Event("click_started", <<>>, <<>>)
    /\ UNCHANGED <<files, parts, pc, wr, pipeVars, enumVars, faults, after_queue, extracted_text>>

\* the file the pipeline thread holds open for writing
open_file == IF pc = "save" THEN output_file ELSE cache_file
other_file == IF open_file = "seed" THEN "out" ELSE "seed"

\* TranslationApp.clear_temp, the command of the Start New Book button:
\* shutil.rmtree(temp_dir).  When the pipeline thread holds a file open the
\* outcome depends on the platform: the file is unlinked under the writer,
\* or rmtree raises at that file, with the other file deleted before or not
ClearTemp ==
    /\ clicks < MaxClicks
    /\ clicks' = clicks + 1
    /\ ev' = Event("clear_temp", <<>>, <<>>)
    /\ IF wr = "open"
       THEN \/ /\ files' = [seed |-> Missing, out |-> Missing]
               /\ extracted_text' = <<>>
               /\ wr' = "unlinked"
            \/ /\ \E f \in {files[other_file], Missing} :
                    files' = [files EXCEPT ![other_file] = f]
               /\ UNCHANGED <<extracted_text, wr>>
       ELSE /\ files' = [seed |-> Missing, out |-> Missing]
            /\ extracted_text' = <<>>
            /\ UNCHANGED wr
    /\ UNCHANGED <<parts, pc, pipeVars, enumVars, faults, initial, is_translating, button,
                   stage, after_queue>>

\* the Tk main loop runs the oldest scheduled callback
RunCallback ==
    /\ after_queue # <<>>
    /\ after_queue' = Tail(after_queue)
    /\ button' = IF Head(after_queue) = "enable_button" THEN "normal" ELSE button
    /\ is_translating' = IF Head(after_queue) = "release" THEN FALSE ELSE is_translating
    /\ ev' = Event("callback", <<>>, <<>>)
    /\ UNCHANGED <<files, parts, pc, wr, pipeVars, enumVars, faults, initial, stage, clicks,
                   extracted_text>>

\* thread t moves on; the variables of the other layers stay
Goto(t, st, kind) ==
    /\ stage' = [stage EXCEPT ![t] = st]
    /\ ev' = Event(kind, <<>>, <<>>)
    /\ UNCHANGED <<initial, is_translating, button, clicks>>

\* run_translation: the entry fields are read and tested; an empty field
\* returns, through the finally clause
WorkerStart ==
    \E t \in 1..Len(stage) :
        /\ stage[t] = "start"
        /\ \E filled \in BOOLEAN :
             Goto(t, IF filled THEN "file_manager" ELSE "finally", "inputs_checked")
        /\ UNCHANGED <<files, parts, pc, wr, pipeVars, enumVars, faults, after_queue,
                       extracted_text>>

\* file_manager.file_manager: the extraction directory is removed and the
\* EPUB unzipped into it; an exception returns
WorkerFileManager ==
    \E t \in 1..Len(stage) :
        /\ stage[t] = "file_manager"
        /\ \/ /\ Goto(t, "ebook_processor", "unzipped")
              /\ parts' = InitParts
              /\ UNCHANGED faults
           \/ /\ Fault
              /\ Goto(t, "finally", "unzip_raised")
              /\ UNCHANGED parts
        /\ UNCHANGED <<files, pc, wr, pipeVars, enumVars, after_queue, extracted_text>>

\* epub_processor.ebook_processor: ruby annotations are removed from the
\* parts; the parts of the model carry none
WorkerEbookProcessor ==
    \E t \in 1..Len(stage) :
        /\ stage[t] = "ebook_processor"
        /\ Goto(t, "extract_text", "processed")
        /\ UNCHANGED <<files, parts, pc, wr, pipeVars, enumVars, faults, after_queue,
                       extracted_text>>

\* TextExtractor.extract_text writes temp/extracted_text.txt and nothing
\* else; gpt_translation is entered
WorkerExtractText ==
    \E t \in 1..Len(stage) :
        /\ stage[t] = "extract_text"
        /\ Goto(t, "gpt_translation", "extracted")
        /\ \E platform \in Platforms : extracted_text' = extract_lines(parts, platform)
        /\ pc' = "scan"
        /\ fi' = 1
        /\ UNCHANGED <<files, parts, wr, procLocals, batchLocals, translation,
                       xtranslations, xi, updated_count, runs, requested, calls, scanned,
                       setDone, crashedAt, enumVars, faults, after_queue>>

\* gpt_translation has returned; file_manager.create_epub is next
WorkerTranslated ==
    \E t \in 1..Len(stage) :
        /\ stage[t] = "gpt_translation"
        /\ pc = "done"
        /\ Goto(t, "create_epub", "translated")
        /\ pc' = "idle"
        /\ xtranslations' = <<>>
        /\ xi' = 0
        /\ updated_count' = 0
        /\ UNCHANGED <<files, parts, wr, fi, procLocals, batchLocals, translation, runs,
                       requested, calls, scanned, setDone, crashedAt, enumVars, faults, after_queue,
                       extracted_text>>

\* gpt_translation has raised: the except clause of run_translation
WorkerTranslationRaised ==
    \E t \in 1..Len(stage) :
        /\ stage[t] = "gpt_translation"
        /\ pc = "aborted"
        /\ Goto(t, "finally", "translation_raised")
        /\ pc' = "idle"
        /\ UNCHANGED <<files, parts, wr, pipeVars, enumVars, faults, after_queue, extracted_text>>

\* file_manager.create_epub, or the except clause when it raises
WorkerCreateEpub ==
    \E t \in 1..Len(stage) :
        /\ stage[t] = "create_epub"
        /\ \/ /\ Goto(t, "finally", "epub_created")
              /\ UNCHANGED faults
           \/ /\ Fault
              /\ Goto(t, "finally", "epub_raised")
        /\ UNCHANGED <<files, parts, pc, wr, pipeVars, enumVars, after_queue, extracted_text>>

\* variant: the callback that resets is_translating is not scheduled
WorkerFinallyWithoutRelease ==
    \E t \in 1..Len(stage) :
        /\ stage[t] = "finally"
        /\ Goto(t, "exited", "finished")
        /\ after_queue' = after_queue \o <<"enable_button", "focus">>
        /\ UNCHANGED <<files, parts, pc, wr, pipeVars, enumVars, faults, extracted_text>>

\* the finally clause schedules its three callbacks and the thread ends
WorkerFinally ==
    \E t \in 1..Len(stage) :
        /\ stage[t] = "finally"
        /\ Goto(t, "exited", "finished")
        /\ after_queue' = after_queue \o <<"enable_button", "focus", "release">>
        /\ UNCHANGED <<files, parts, pc, wr, pipeVars, enumVars, faults, extracted_text>>

AppNext ==
    \/ ClickTranslate
    \/ ClearTemp
    \/ RunCallback
    \/ WorkerStart
    \/ WorkerFileManager
    \/ WorkerEbookProcessor
    \/ WorkerExtractText
    \/ WorkerTranslated
    \/ WorkerTranslationRaised
    \/ WorkerCreateEpub
    \/ WorkerFinally
    \/ ProcessScan
    \/ ProcessLoadRaise
    \/ BatchTranslate
    \/ CacheSetOpen
    \/ CacheSetDump
    \/ CacheSetRaise
    \/ Rescan
    \/ TranslateSingle
    \/ SingleSetOpen
    \/ SingleSetDump
    \/ SingleSetRaise
    \/ SaveOpen
    \/ SaveDump
    \/ SaveRaise
    \/ LoadTranslations
    \/ UpdateSingleFile
    \/ UpdateSingleFileRaise

AppSpec == AppInit /\ [][AppNext]_vars

\* the steps that need no user: the callbacks the Tk main loop runs, and the
\* steps of the run_translation thread
Machine ==
    \/ RunCallback
    \/ WorkerStart
    \/ WorkerFileManager
    \/ WorkerEbookProcessor
    \/ WorkerExtractText
    \/ WorkerTranslated
    \/ WorkerTranslationRaised
    \/ WorkerCreateEpub
    \/ WorkerFinally
    \/ ProcessScan
    \/ ProcessLoadRaise
    \/ BatchTranslate
    \/ CacheSetOpen
    \/ CacheSetDump
    \/ CacheSetRaise
    \/ Rescan
    \/ TranslateSingle
    \/ SingleSetOpen
    \/ SingleSetDump
    \/ SingleSetRaise
    \/ SaveOpen
    \/ SaveDump
    \/ SaveRaise
    \/ LoadTranslations
    \/ UpdateSingleFile
    \/ UpdateSingleFileRaise

\* the main loop keeps running the callbacks scheduled with root.after, and
\* the thread keeps running while every call it makes returns or raises;
\* nothing is assumed about the user
FairAppSpec == AppInit /\ [][AppNext]_vars /\ WF_vars(Machine)

\* ---------------------------------------------------------------- enumeration runs
\* The part enumerations applied to extracted books drawn from a bounded set.
P2 == <<"p", "-", "2">>
P10 == <<"p", "-", "1", "0">>
Cover == <<"c">>
A1B3 == <<"a", "1", "b", "3">>
FileNames == {P2, P10, Cover, A1B3}

\* sequences of distinct file names, at most MaxListing of them
Listings ==
    {l \in UNION {[1..n -> FileNames] : n \in 0..MaxListing} :
        \A x, y \in 1..Len(l) : x # y => l[x] # l[y]}

Manifests ==
    { << Item("a", P10, TRUE), Item("b", P2, TRUE), Item("c", Cover, TRUE) >>,
      << Item("a", P10, TRUE), Item("b", P2, FALSE), Item("c", A1B3, TRUE) >> }

Spines == { <<"a", "b", "c">>, <<"c", "b", "a">>, <<"b", "x", "a">>, <<"b">>, <<>> }

Books ==
    {Book(c, o, m, sp, TRUE, l) :
        c \in {"ok", "missing", "unparsable"}, o \in {"ok", "missing", "unparsable"},
        m \in Manifests, sp \in Spines, l \in Listings}
    \cup
    {Book(c, o, m, sp, FALSE, <<>>) :
        c \in {"ok", "missing", "unparsable"}, o \in {"ok", "missing", "unparsable"},
        m \in Manifests, sp \in Spines}

EnumInit ==
    /\ files = [seed |-> Missing, out |-> Missing]
    /\ parts = <<>>
    /\ initial = files
    /\ PipelineIdle
    /\ AppIdle
    /\ book \in Books
    /\ extractor_files = NotRun
    /\ manager_files = NotRun
    /\ manager_files_tools = NotRun

restVars == <<files, parts, pc, wr, pipeVars, faults, ev, initial, appVars, book>>

\* extract_text calls find_xhtml_files
ExtractEnumerate ==
    /\ extractor_files = NotRun
    /\ extractor_files' = extract_enumeration(book)
    /\ UNCHANGED <<restVars, manager_files, manager_files_tools>>

\* Update_Xhtml_Manager.run calls get_xhtml_files (src/translator.py)
GetXhtmlFiles ==
    /\ manager_files = NotRun
    /\ manager_files' = get_xhtml_files(book)
    /\ UNCHANGED <<restVars, extractor_files, manager_files_tools>>

\* Update_Xhtml_Manager.run calls get_xhtml_files (src/tools/translator.py)
GetXhtmlFilesTools ==
    /\ manager_files_tools = NotRun
    /\ manager_files_tools' = get_xhtml_files_tools(book)
    /\ UNCHANGED <<restVars, extractor_files, manager_files>>

EnumNext ==
    \/ ExtractEnumerate
    \/ GetXhtmlFiles
    \/ GetXhtmlFilesTools

EnumSpec == EnumInit /\ [][EnumNext]_vars

\* ---------------------------------------------------------------- batch calls
\* batch_translate_for_json called on its own: any list of distinct texts
\* with any cache, as its signature allows

BatchTexts == {TextA, TextB, TextC}

\* the lists of one to three distinct texts
TextLists ==
    {ts \in [1..1 -> BatchTexts] \cup [1..2 -> BatchTexts] \cup [1..3 -> BatchTexts] :
        Cardinality(Range(ts)) = Len(ts)}

Caches ==
    { <<>>,
      << <<TextA, Valid1>> >>,
      << <<TextA, Valid1>>, <<TextB, Valid1>> >>,
      << <<TextA, TextA>> >>,
      << <<TextB, <<KANA>>>> >>,
      << <<TextC, Valid1>>, <<TextA, <<>>>> >> }

BatchInit ==
    /\ files = [seed |-> Missing, out |-> Missing]
    /\ parts = <<>>
    /\ initial = files
    /\ PipelineIdle
    /\ AppIdle
    /\ book = NoBook
    /\ extractor_files = NotRun
    /\ manager_files = NotRun
    /\ manager_files_tools = NotRun

\* the batch loop is entered with a list of texts and a TranslationCache
CallBatch ==
    /\ pc = "idle"
    /\ \E ts \in TextLists, c \in Caches :
         /\ untranslated' = ts
         /\ json_data' = [n \in 1..Len(ts) |-> <<ts[n], <<>>>>]
         /\ updated_json' = [n \in 1..Len(ts) |-> <<ts[n], <<>>>>]
         /\ cache' = c
         /\ files' = [files EXCEPT ![cache_file] = File(c)]
         /\ ev' = Event("call", ts, <<>>)
    /\ pc' = "batch"
    /\ i' = 0
    /\ UNCHANGED <<parts, fi, remaining_untranslated, r, translation, wr, batchLocals,
                   xtranslations, xi, updated_count, runs, requested, calls, scanned, setDone,
                   crashedAt, faults, initial, appVars, enumVars>>

BatchNext ==
    \/ CallBatch
    \/ BatchTranslate
    \/ CacheSetOpen
    \/ CacheSetDump
    \/ CacheSetRaise

BatchSpec == BatchInit /\ [][BatchNext]_vars

\* ---------------------------------------------------------------- properties
\* The classes of the data model, stated on the characters themselves.
HasKana(t) == \E n \in 1..Len(t) : t[n] = KANA
PunctOnly(t) == t # <<>> /\ \A n \in 1..Len(t) : t[n] \in {PUNCT, SPACE, NL}
ValidPair(k, v) == v # <<>> /\ v # None /\ ~HasKana(v) /\ v # k

\* position n of a response is the first non-blank character of its line
FirstOfLine(resp, n) ==
    /\ ~IsSpace(resp[n])
    /\ \A m \in 1..(n - 1) :
         ~IsSpace(resp[m]) => \E q \in (m + 1)..(n - 1) : resp[q] = NL

\* the number of non-blank lines of a response
LineCount(resp) == Cardinality({n \in 1..Len(resp) : FirstOfLine(resp, n)})

Answered(e) == e.kind \in {"batch_misaligned", "batch_aligned"}

\* C1: a batch response whose number of non-blank lines differs from the
\* number of units sent maps every unit sent to itself, changes neither the
\* cache nor its file, and the batch returns without any cache.set.
C1_AlignmentSafety ==
    [][ (pc = "batch" /\ Answered(ev') /\ LineCount(ev'.resp) # Len(ev'.req))
        => /\ \A n \in 1..Len(ev'.req) : Get(updated_json', ev'.req[n]) = ev'.req[n]
           /\ cache' = cache
           /\ files' = files
           /\ setDone' = setDone
           /\ pc' \in {"batch", "rescan"} ]_vars

\* two units were sent and three lines came back
C1_Witness ==
    /\ ev.kind = "batch_misaligned"
    /\ Len(ev.req) = 2
    /\ LineCount(ev.resp) = 3
    /\ \A n \in 1..2 : Get(updated_json, ev.req[n]) = ev.req[n]

\* C2: a second run of the reinjection on the parts the first run left,
\* with the same mapping and no exception anywhere, rewrites no part.
C2_Idempotence ==
    (pc = "done" /\ runs = 2 /\ faults = 0 /\ ev.kind # "load_failed")
        => updated_count = 0

\* the elements of part xi for which the mapping holds a valid translation
HasValidTranslation(p) ==
    /\ Has(xtranslations, get_text(p))
    /\ ValidPair(get_text(p), Get(xtranslations, get_text(p)))

\* C3: an element whose text has no valid translation in the mapping (the
\* value is empty, script-residual or the text itself) is left as it is, and
\* a part with no element that has a valid translation is not rewritten.
C3_OnlyValidReinjected ==
    [][ (pc = "update" /\ ev'.kind \in {"part_written", "part_unchanged"})
        => /\ \A n \in 1..Len(parts[xi]) :
                ~HasValidTranslation(parts[xi][n]) => parts'[xi][n] = parts[xi][n]
           /\ (\A n \in 1..Len(parts[xi]) : ~HasValidTranslation(parts[xi][n]))
                => (parts' = parts /\ updated_count' = updated_count) ]_vars

\* C4: when a pass has saved its result, every entry of the result with a
\* non-empty key holds a valid translation or the key itself.
C4_OutputValueKinds ==
    ev.kind = "saved"
        => \A n \in 1..Len(files[output_file].data) :
             LET e == files[output_file].data[n] IN
             e[1] # <<>> => (ValidPair(e[1], e[2]) \/ e[2] = e[1])

Untranslated(k, v) == k # <<>> /\ ~PunctOnly(k) /\ (v = <<>> \/ HasKana(v) \/ v = k)

\* u lists, in the order of d, exactly the keys of the untranslated entries of d
SelectsUntranslated(d, u) ==
    LET sel == {n \in 1..Len(d) : Untranslated(d[n][1], d[n][2])} IN
    /\ Len(u) = Cardinality(sel)
    /\ Range(u) = {d[n][1] : n \in sel}
    /\ \A a, b \in 1..Len(u) : a < b => Index(d, u[a]) < Index(d, u[b])

\* C6: both scans of a pass return exactly the non-empty, non-punctuation
\* keys whose value is empty, script-residual or the key, in mapping order.
C6_ScanClassification ==
    [][ /\ (pc = "scan" /\ ev'.kind = "scan")
            => SelectsUntranslated(load_json(files[cache_file]), untranslated')
        /\ (pc = "rescan" /\ ev'.kind = "rescan")
            => SelectsUntranslated(updated_json, remaining_untranslated') ]_vars

\* the repair scan returned an entry whose value is non-empty and
\* script-residual, and left out an entry with a valid value
C6_Witness ==
    /\ ev.kind = "rescan"
    /\ \E k \in Range(remaining_untranslated) :
         LET v == Get(updated_json, k) IN v # <<>> /\ v # k /\ HasKana(v)
    /\ \E n \in 1..Len(updated_json) :
         /\ ValidPair(updated_json[n][1], updated_json[n][2])
         /\ updated_json[n][1] \notin Range(remaining_untranslated)

InTranslationPass(p) == p \in {"batch", "bset", "rescan", "single", "sset"}

\* C7: after a completed cache.set the file holds the in-memory mapping with
\* the new entry, and when the process dies during the batch or repair pass
\* every unit whose set had completed is in the cache file with its translation.
C7_CrashSafety ==
    /\ ev.kind = "set_done"
        => /\ files[cache_file] = File(cache)
           /\ Get(cache, ev.req[1]) = ev.resp
    /\ (pc = "crashed" /\ InTranslationPass(crashedAt))
        => \A n \in 1..Len(setDone) :
             /\ files[cache_file].st = "ok"
             /\ Get(files[cache_file].data, setDone[n][1]) = setDone[n][2]

\* C8: every unit sent to the service during a pass is a key of the cache
\* file the pass loaded whose entry was not valid at the scan; so a unit with
\* a valid entry is never sent, and a file without invalid entries causes no
\* request.
C8_NoRedundantCalls ==
    \A k \in requested :
        Has(scanned, k) /\ ~ValidPair(k, Get(scanned, k))

\* the second pass sends a request although the file it loaded, written by
\* the first pass, holds a valid entry
C8_Witness ==
    /\ fi = 2
    /\ requested # {}
    /\ \E k \in Keys(scanned) : k # <<>> /\ ValidPair(k, Get(scanned, k))

\* C9: when cache.set raises for an aligned batch, the batch loop goes on
\* and the units of the batch are mapped to the lines the service returned.
C9_CacheWriteFailureKeepsBatch ==
    [][ (pc = "bset" /\ ev'.kind = "set_raised")
        => /\ pc' \in {"batch", "rescan"}
           /\ \A n \in 1..Len(uncached_texts) :
                Get(updated_json', uncached_texts[n]) = cleaned_translations[n] ]_vars

\* C10: when save_json raises the run continues: with the next cache file,
\* or with the reinjection stage.
C10_SaveFailureNotFatal ==
    ev.kind = "save_raised" => pc \in {"scan", "load_translations"}

\* C11: a cache file that is missing or whose content cannot be decoded is
\* read as the empty mapping: the scan ends without an error, without
\* untranslated units and without a request, and the pass then writes the
\* empty result and goes on to the next cache file.
C11_UnreadableCacheIsEmpty ==
    [][ /\ (pc = "scan" /\ files[cache_file].st # "ok"
              /\ ev'.kind \in {"scan", "load_raised"})
            => /\ ev'.kind = "scan"
               /\ json_data' = <<>>
               /\ untranslated' = <<>>
               /\ requested' = {}
               /\ pc' = "save"
        /\ (pc = "save" /\ scanned = <<>> /\ ev'.kind = "saved")
            => /\ files'[output_file] = File(<<>>)
               /\ requested' = {}
               /\ IF fi < Len(cache_files)
                  THEN fi' = fi + 1 /\ pc' = "scan"
                  ELSE pc' = "load_translations" ]_vars

SingleEvent(k) == k \in {"single_cached", "single_raised", "single_answered"}

\* C12: the repair pass calls translate_single once for every unit the
\* second scan returned, in that order; when the request of a unit raises
\* the unit is mapped to itself, neither the cache nor its file changes, and
\* the loop goes on with the next unit, or to save_json after the last.
C12_RepairPass ==
    [][ /\ SingleEvent(ev'.kind)
            => /\ pc = "single"
               /\ ev'.req = <<remaining_untranslated[r]>>
        /\ (pc \in {"single", "sset"} /\ ev'.kind # "crash")
            => /\ remaining_untranslated' = remaining_untranslated
               /\ IF pc' = "sset"
                  THEN r' = r
                  ELSE /\ r' = r + 1
                       /\ pc' = IF r < Len(remaining_untranslated)
                                THEN "single" ELSE "save"
        /\ ev'.kind = "single_raised"
            => /\ Get(updated_json', remaining_untranslated[r]) = remaining_untranslated[r]
               /\ cache' = cache
               /\ files' = files
               /\ setDone' = setDone
               /\ pc' \in {"single", "save"} ]_vars

\* the request of the first unit of the repair pass raised, the unit is
\* mapped to itself and the second unit is up next
C12_Witness ==
    /\ ev.kind = "single_raised"
    /\ pc = "single"
    /\ r = 2
    /\ ev.req = <<remaining_untranslated[1]>>
    /\ Get(updated_json, remaining_untranslated[1]) = remaining_untranslated[1]

\* C13: when the request of a batch raises, every unit of the batch is
\* mapped to itself, neither the cache nor its file changes, no cache.set
\* happens, and the loop goes on with the next batch.
C13_BatchFailureFallsBack ==
    [][ (pc = "batch" /\ ev'.kind = "batch_raised")
        => /\ \A n \in 1..Len(texts) : Get(updated_json', texts[n]) = texts[n]
           /\ cache' = cache
           /\ files' = files
           /\ setDone' = setDone
           /\ i' = i + BatchSize
           /\ pc' = IF i + BatchSize < Len(untranslated) THEN "batch" ELSE "rescan" ]_vars

\* the request of a batch of two raised, both units are mapped to
\* themselves and a further batch is up next
C13_Witness ==
    /\ ev.kind = "batch_raised"
    /\ pc = "batch"
    /\ Len(ev.req) = 2
    /\ \A n \in 1..2 : Get(updated_json, ev.req[n]) = ev.req[n]

\* C14: when both passes have saved, the output file holds every key that
\* either of the two cache files held when the run started.
C14_OutputMergesBothFiles ==
    (ev.kind = "saved" /\ pc = "load_translations")
        => \A k \in Keys(load_json(initial.seed)) \cup Keys(load_json(initial.out)) :
             Has(files[output_file].data, k)

\* C15: the result a pass has saved has exactly the keys of the cache file
\* the pass loaded.
C15_FullMapping ==
    ev.kind = "saved"
        => /\ files[output_file].st = "ok"
           /\ Keys(files[output_file].data) = Keys(scanned)

\* a pass that sent requests has saved a result of four entries, the one
\* with the empty key among them
C15_Witness ==
    /\ ev.kind = "saved"
    /\ requested # {}
    /\ Len(files[output_file].data) = 4
    /\ Has(files[output_file].data, <<>>)

\* C16: when a run started without a seed cache, the seed cache exists when
\* extraction has ended and the scan of the first pass begins, and holds
\* every non-blank extracted unit with the value "".
C16_SeedWrittenByExtraction ==
    (ev.kind = "extracted" /\ initial.seed.st = "missing")
        => /\ files.seed.st = "ok"
           /\ \A n \in 1..Len(extracted_text) :
                extracted_text[n] # <<>>
                    => /\ Has(files.seed.data, extracted_text[n])
                       /\ Get(files.seed.data, extracted_text[n]) = <<>>

ClickEvent(k) == k \in {"click_started", "click_rejected"}

\* C17: at most one run_translation thread is running at any time, a
\* running thread implies the flag is set, and a Translate click while the
\* flag is set starts no thread and leaves the files, the parts and every
\* variable of the pipeline as they are.
C17_SingleRunGuard ==
    [][ /\ Cardinality(Threads') <= 1
        /\ Threads' # {} => is_translating'
        /\ (is_translating /\ ClickEvent(ev'.kind))
            => /\ ev'.kind = "click_rejected"
               /\ stage' = stage
               /\ is_translating' = is_translating
               /\ files' = files
               /\ parts' = parts
               /\ pc' = pc
               /\ wr' = wr
               /\ pipeVars' = pipeVars ]_vars

\* a Translate click is rejected: the button is enabled again after a run
\* and the flag is not yet released
C17_Witness ==
    /\ ev.kind = "click_rejected"
    /\ is_translating
    /\ Len(stage) = 1

UiEvent(k) == k \in {"click_started", "click_rejected", "clear_temp", "callback"}

\* C18: while the flag is set and the thread is running, no step of the UI
\* thread changes the cache file or the result file.
C18_FilesTouchedOnlyByPipeline ==
    [][ (is_translating /\ Threads # {} /\ UiEvent(ev'.kind))
        => files' = files ]_vars

MetadataUnavailable(b) == b.container # "ok" \/ b.opf # "ok"

\* fs holds the files of the directory listing, ordered by their first
\* number, the files without a number last
IsListingByNumber(b, fs) ==
    /\ Len(fs) = Len(b.listing)
    /\ Range(fs) = Range(b.listing)
    /\ \A x, y \in 1..Len(fs) :
         x < y => get_file_number(fs[x]) <= get_file_number(fs[y])

\* C19: when container.xml or the package file is missing or unparsable and
\* the content directory holds XHTML files, extraction and reinjection both
\* enumerate the directory listing ordered by number.
C19_FallbackEnumeration ==
    (MetadataUnavailable(book) /\ book.has_dir /\ book.listing # <<>>)
        => /\ extractor_files # NotRun
                => /\ extractor_files.out = "files"
                   /\ IsListingByNumber(book, extractor_files.files)
           /\ manager_files # NotRun
                => /\ manager_files.out = "files"
                   /\ IsListingByNumber(book, manager_files.files)

\* the idref resolves: an XHTML item of the manifest whose file exists
Resolves(b, id) ==
    \E n \in 1..Len(b.manifest) :
        /\ b.manifest[n].id = id
        /\ b.manifest[n].xhtml
        /\ b.has_dir
        /\ b.manifest[n].href \in Range(b.listing)

HrefOf(b, id) == (CHOOSE it \in Range(b.manifest) : it.id = id /\ it.xhtml).href

\* the files of the spine's itemrefs that resolve, in spine order
SpineFiles(b) ==
    LET Ok(id) == Resolves(b, id)
        ids == SelectSeq(b.spine, Ok)
    IN [n \in 1..Len(ids) |-> HrefOf(b, ids[n])]

RECURSIVE TextOf(_)
TextOf(nodes) == IF nodes = <<>> THEN <<>> ELSE Head(nodes) \o TextOf(Tail(nodes))

\* a step of _update_single_file on part xi that raised no exception
UpdateStep == pc = "update" /\ ev'.kind \in {"part_written", "part_unchanged"}

\* any call of _update_single_file on part xi, exceptions included
ExamineStep ==
    /\ pc = "update"
    /\ ev'.kind \in {"part_written", "part_unchanged",
                     "part_read_raised", "part_write_raised"}

\* C21: when _update_single_file returns without an exception, every element
\* of the part that is not skipped and whose text is a key of the mapping
\* holds exactly the mapped value as its only text node, with no inline
\* element left; two elements with the same text end up alike.
C21_RoundTrip ==
    [][ UpdateStep
        => /\ \A n \in 1..Len(parts[xi]) :
                LET p == parts[xi][n]
                    q == parts'[xi][n] IN
                (~Skipped(p) /\ Has(xtranslations, get_text(p)))
                    => /\ TextOf(q.runs) = Get(xtranslations, get_text(p))
                       /\ Len(q.runs) <= 1
                       /\ ~q.tags /\ ~q.br
           /\ \A n, m \in 1..Len(parts[xi]) :
                (/\ ~Skipped(parts[xi][n]) /\ ~Skipped(parts[xi][m])
                 /\ get_text(parts[xi][n]) = get_text(parts[xi][m])
                 /\ Has(xtranslations, get_text(parts[xi][n])))
                    => parts'[xi][n] = parts'[xi][m] ]_vars

\* two elements of the third part with different structure and the same text
\* were both replaced by the translation of that text
C21_Witness ==
    /\ ev.kind = "part_written" /\ pc = "done" /\ runs = 1
    /\ Has(xtranslations, TextC)
    /\ Get(xtranslations, TextC) # TextC
    /\ parts[3][2] = Para(<<Get(xtranslations, TextC)>>, FALSE, FALSE)
    /\ parts[3][3] = parts[3][2]

\* an element the specification calls structural: it contains a line break,
\* or its text is exactly the section-break glyph
Structural(p) == p.br \/ get_text(p) = <<GLYPH>>

\* C22: _update_single_file leaves every element alone that contains a <br/>
\* or whose text is the section-break glyph, whether or not its text is a key
\* of the mapping, and a part with no other element is never written, on any
\* outcome of the call.
C22_StructuralSkip ==
    [][ ExamineStep
        => /\ UpdateStep
                => \A n \in 1..Len(parts[xi]) :
                     Structural(parts[xi][n]) => parts'[xi][n] = parts[xi][n]
           /\ (\A n \in 1..Len(parts[xi]) : Structural(parts[xi][n]))
                => /\ parts' = parts
                   /\ updated_count' = updated_count
                   /\ ev'.kind \notin {"part_written", "part_write_raised"} ]_vars

\* the second part, whose elements are the glyph and a paragraph with <br/>,
\* was examined with both texts keys of the mapping, and is as it was
C22_Witness ==
    /\ ev.kind = "part_unchanged" /\ pc = "update" /\ xi = 3
    /\ Has(xtranslations, TextG) /\ Has(xtranslations, TextA)
    /\ Get(xtranslations, TextG) # TextG
    /\ parts[2] = InitParts[2]

\* C23: an exception in _update_single_file moves update_xhtml_files to the
\* next part like any other outcome; updated_count grows by one exactly when
\* a part was written, and never exceeds the number of parts examined.
C23_FailureIsolationAndCount ==
    [][ ExamineStep
        => /\ xi' = xi + 1
           /\ pc' = IF xi < Len(parts) THEN "update" ELSE "done"
           /\ updated_count' =
                updated_count + (IF ev'.kind = "part_written" THEN 1 ELSE 0)
           /\ updated_count' <= xi ]_vars

\* the first part raised, and a later part was written and counted
C23_Witness ==
    /\ ev.kind = "part_written" /\ xi > 2
    /\ faults = 1 /\ runs = 1
    /\ updated_count = 1
    /\ parts[1] = InitParts[1]
    /\ \E n \in 1..Len(parts[1]) :
         ~Skipped(parts[1][n]) /\ Has(xtranslations, get_text(parts[1][n]))

\* C25: whenever _update_single_file writes a part, the text of one of its
\* elements after the call differs from its text before.
C25_WrittenOnlyIfChanged ==
    [][ (pc = "update" /\ ev'.kind = "part_written")
        => \E n \in 1..Len(parts[xi]) :
             TextOf(parts'[xi][n].runs) # TextOf(parts[xi][n].runs) ]_vars

RECURSIVE ParagraphCount(_)
\* the number of <p> elements of the parts, plus one for every part
ParagraphCount(ps) == IF ps = <<>> THEN 0
                      ELSE Len(Head(ps)) + 1 + ParagraphCount(Tail(ps))

\* C24: for either platform, extract_text writes one line for every <p>
\* element and one separator line for every part.
C24_OneLinePerParagraph ==
    [][ ev'.kind = "extracted"
        => Len(extracted_text') = ParagraphCount(parts) ]_vars

\* the positions at which the non-blank lines of a response start
LineStarts(resp) == {q \in 1..Len(resp) : FirstOfLine(resp, q)}

\* the n-th non-blank line of a response, without the blanks around it
NthLine(resp, n) ==
    LET q == CHOOSE q \in LineStarts(resp) :
                 Cardinality({m \in LineStarts(resp) : m <= q}) = n
        e == CHOOSE e \in q..Len(resp) :
                 /\ ~IsSpace(resp[e])
                 /\ \A m \in q..e : resp[m] # NL
                 /\ \A f \in (e + 1)..Len(resp) :
                      IsSpace(resp[f]) \/ \E m \in q..f : resp[m] = NL
    IN SubSeq(resp, q, e)

\* line starts with digits and a dot
Numbered(line) ==
    \E k \in 1..Len(line) :
        /\ \A m \in 1..k : line[m] = DIGIT
        /\ Len(line) > k /\ line[k + 1] = DOT

\* v is line with a leading "<N>." and the blanks after it removed
Unnumbered(line, v) ==
    IF Numbered(line)
    THEN \E k \in 1..Len(line), w \in 1..Len(line) :
            /\ \A m \in 1..k : line[m] = DIGIT
            /\ line[k + 1] = DOT
            /\ w > k
            /\ \A m \in (k + 2)..w : IsSpace(line[m])
            /\ v = SubSeq(line, w + 1, Len(line))
            /\ (v = <<>> \/ ~IsSpace(v[1]))
    ELSE v = line

\* C26: when a batch response has as many non-blank lines as units were
\* sent, the lines of the zip loop are, position by position, the non-blank
\* lines of the response without their numbering; the loop keeps them, every
\* completed cache.set stores the line of its own position, and when the
\* batch returns after the last cache.set every unit sent holds the line of
\* its position in the run's mapping, in the cache and in the cache file.
C26_PositionalAssignment ==
    [][ /\ (pc = "batch" /\ ev'.kind = "batch_aligned")
            => /\ LineCount(ev'.resp) = Len(ev'.req)
               /\ uncached_texts' = ev'.req
               /\ Len(cleaned_translations') = Len(ev'.req)
               /\ \A n \in 1..Len(ev'.req) :
                    Unnumbered(NthLine(ev'.resp, n), cleaned_translations'[n])
        /\ (pc = "bset" /\ pc' = "bset")
            => /\ uncached_texts' = uncached_texts
               /\ cleaned_translations' = cleaned_translations
               /\ j' \in {j, j + 1}
        /\ (pc = "bset" /\ ev'.kind = "set_done")
            => /\ ev'.req = <<uncached_texts[j]>>
               /\ ev'.resp = cleaned_translations[j]
               /\ Get(cache', uncached_texts[j]) = cleaned_translations[j]
               /\ Get(translations, uncached_texts[j]) = cleaned_translations[j]
        /\ (pc = "bset" /\ ev'.kind = "set_done" /\ pc' # "bset")
            => /\ j = Len(uncached_texts)
               /\ files'[cache_file].st = "ok"
               /\ \A n \in 1..Len(uncached_texts) :
                    /\ Get(updated_json', uncached_texts[n]) = cleaned_translations[n]
                    /\ Get(cache', uncached_texts[n]) = cleaned_translations[n]
                    /\ Get(files'[cache_file].data, uncached_texts[n])
                         = cleaned_translations[n] ]_vars

\* a batch of two units has returned after two numbered lines were stored,
\* each under the unit of its position
C26_Witness ==
    /\ ev.kind = "set_done" /\ pc \in {"batch", "rescan"}
    /\ Len(setDone) = 2
    /\ setDone[1][2] = <<HAN, HAN>> /\ setDone[2][2] = <<KANA>>
    /\ \A n \in 1..2 :
         /\ Get(updated_json, setDone[n][1]) = setDone[n][2]
         /\ Get(cache, setDone[n][1]) = setDone[n][2]
         /\ Get(files[cache_file].data, setDone[n][1]) = setDone[n][2]

\* a batch call returns on this step
BatchReturns ==
    \/ pc = "batch" /\ ev'.kind \in {"batch_cached", "batch_raised", "batch_misaligned"}
    \/ pc = "bset" /\ pc' # "bset" /\ ev'.kind \in {"set_done", "set_raised"}

\* the cache check of the running batch call resolved text
ResolvedFromCache(text) ==
    /\ pc \in {"batch", "bset"}
    /\ ValidPair(text, Get(cache, text))
    /\ pc = "bset" => text \notin Range(uncached_texts)

Trimmed(resp, v) ==
    \E a, b \in 0..Len(resp) :
        /\ v = SubSeq(resp, a + 1, b)
        /\ \A m \in 1..a : IsSpace(resp[m])
        /\ \A m \in (b + 1)..Len(resp) : IsSpace(resp[m])
        /\ (v = <<>> \/ (~IsSpace(v[1]) /\ ~IsSpace(v[Len(v)])))

\* C30: every cache.set of a pass stores text of a service response (a line
\* of the batch response at hand, or the single response without the blanks
\* at its ends), the cache changes in a cache.set only, and a misaligned
\* batch response, a batch request that raises and a single request that
\* raises leave the cache and the two files as they were.
C30_FallbacksNotCached ==
    [][ /\ (pc = "batch" /\ ev'.kind = "batch_aligned")
            => \A n \in 1..Len(cleaned_translations') :
                 Unnumbered(NthLine(ev'.resp, n), cleaned_translations'[n])
        /\ (pc = "bset" /\ ev'.kind = "set_open")
            => ev'.resp = cleaned_translations[j]
        /\ (pc = "single" /\ ev'.kind = "single_answered")
            => Trimmed(ev'.resp, translation')
        /\ (pc = "sset" /\ ev'.kind = "set_open")
            => ev'.resp = translation
        /\ (pc \in {"batch", "bset", "rescan", "single", "sset"} /\ cache' # cache)
            => \/ ev'.kind = "crash"
               \/ /\ ev'.kind \in {"set_open", "set_raised"}
                  /\ \E n \in 1..Len(cache') :
                       /\ cache' = Put(cache, cache'[n][1], cache'[n][2])
                       /\ cache'[n][2] = IF pc = "bset" THEN cleaned_translations[j]
                                                       ELSE translation
        /\ ev'.kind \in {"batch_misaligned", "batch_raised", "single_raised"}
            => /\ cache' = cache
               /\ files' = files
               /\ setDone' = setDone ]_vars

\* a single request raised after an earlier cache.set of the pass: the unit
\* is mapped to itself in the run's mapping only, and the cache file holds
\* what the cache.set wrote
C30_Witness ==
    /\ ev.kind = "single_raised"
    /\ setDone # <<>>
    /\ Get(updated_json, ev.req[1]) = ev.req[1]
    /\ Get(cache, ev.req[1]) # ev.req[1]
    /\ files[cache_file] = File(cache)
    /\ \A n \in 1..Len(setDone) : Get(cache, setDone[n][1]) = setDone[n][2]

\* the positions inside JsonProcessor.process
InProcess == pc \in {"scan", "batch", "bset", "rescan", "single", "sset", "save"}

\* the numbers of requests of the pass against the n units the scan found
\* and the batch size, and the number of requests that held one unit
RequestBounds ==
    /\ (InProcess /\ pc # "scan")
        => /\ calls.batch * BatchSize < Len(untranslated) + BatchSize
           /\ calls.single <= Len(untranslated)
           /\ \A n \in 1..Len(calls.pass) : calls.pass[n][2] <= 2
    /\ \A n \in 1..Len(calls.run) : calls.run[n][2] <= 4

\* C28: whatever the service answers and whichever call raises, process
\* sends at most ceil(n/b) batch requests and n single requests in a pass
\* over n untranslated units, a unit is part of at most 2 requests of a pass
\* and 4 of a run, and the thread leaves process for good.
C28_BoundedWork == []RequestBounds /\ <>[](~InProcess)

\* in the second pass every batch and every unit has been requested, and
\* one unit was part of four requests of the run
C28_Witness ==
    /\ fi = 2 /\ pc = "save"
    /\ Len(untranslated) = 2
    /\ calls.batch * BatchSize >= Len(untranslated)
    /\ calls.single = Len(untranslated)
    /\ \E n \in 1..Len(calls.run) : calls.run[n][2] = 4

\* C29: whenever is_translating is set, a state follows in which it is
\* false and the Translate button is enabled, whatever the thread met on its
\* way (missing inputs, a stage that raised, or a complete run).
C29_GuardReleased == is_translating ~> (~is_translating /\ button = "normal")

\* a run in which gpt_translation raised has ended, its three callbacks
\* have run, and the next click is still to come
C29_Witness ==
    /\ stage = <<"exited">>
    /\ files.seed = Undecodable
    /\ after_queue = <<>>
    /\ ~is_translating /\ button = "normal"
    /\ ev.kind = "callback"
    /\ clicks < MaxClicks


====
